---------------------------- MODULE Spec2Model ----------------------------
(***************************************************************************)
(* Model of freegames/utils.py (class vector) and freegames/flappy.py      *)
(* (the timer-driven game loop).                                           *)
(*                                                                         *)
(* Numbers are integers.  Every number flappy.py produces is a Python int  *)
(* (vector(0, 0), 30, 5, 3, 199 and randrange results), so its arithmetic  *)
(* is exact.  A vector is a record holding the three slots of the class    *)
(* (_x, _y, _hash); the slot _hash is None (the empty sequence) or a       *)
(* one-element sequence holding the cached hash.                           *)
(***************************************************************************)
EXTENDS Integers, Sequences, FiniteSets, TLC

VARIABLES
    bird,       \* flappy.py: the module-level vector `bird`
    balls,      \* flappy.py: the module-level list `balls`
    onclick,    \* the handler bound by onscreenclick: "start" or "tap"
    timers,     \* pending ontimer registrations, in firing order
    canvas,     \* the dots drawn since the last clear()
    alive,      \* <<>> before any tick, else <<value of `alive` in the last tick>>
    err,        \* the exception that escaped the last handler, or "none"
    nTicks,     \* history: number of draw() calls so far
    nTaps,      \* history: number of tap() calls so far
    nSpawned,   \* history: number of obstacles created so far
    lastEvent,  \* history: the last handler that ran
    lastRand,   \* history: the random outcome of the last tick
    evicted,    \* history: the obstacles popped by the last tick
    heap,       \* vector objects of the vector-class specification, by id
    hashed,     \* history: ids of the objects hash() was called on
    last        \* history: the last vector operation and its outcome

vars == <<bird, balls, onclick, timers, canvas, alive, err, nTicks, nTaps,
          nSpawned, lastEvent, lastRand, evicted, heap, hashed, last>>

gameVars == <<bird, balls, onclick, timers, canvas, alive, err, nTicks, nTaps,
              nSpawned, lastEvent, lastRand, evicted>>

vecVars == <<heap, hashed, last>>

(***************************************************************************)
(* Bounds of the model.                                                    *)
(***************************************************************************)
\* Clicks handled by tap() in one run.
MaxTaps == 7
\* The random outcomes of the first MaxFree ticks are arbitrary; every later
\* tick repeats the outcome of the tick before it.
MaxFree == 3
\* Stored components of the vector-class specification lie in -1..MaxComp.
MaxComp == 1

\* The identities of the vector objects of the vector-class specification: a
\* receiver and an operand, or a receiver and the instance a method returned.
ObjIds == {1, 2}

\* The values randrange(-199, 199) is explored for: both ends.
SpawnYs == {-199, 198}
\* The values randrange(15) is explored for: the spawning one and two others.
RandDraws == {0, 1, 14}
\* Click coordinates handed to the handlers.
ClickXs == {-7, 0}
ClickYs == {0, 9}

(***************************************************************************)
(* Program constants of flappy.py.                                         *)
(***************************************************************************)
Gravity == 5
Drift == 3
Jump == 30
SpawnChance == 15
SpawnX == 199
SpawnYLo == -199
SpawnYHi == 199
HalfExtent == 200
CollisionRadius == 15
Capacity == 30
BallDot == 20
BirdDot == 10
TickDelay == 50

(***************************************************************************)
(* class vector                                                            *)
(***************************************************************************)
None == <<>>

\* round(value, 9): an int is returned unchanged.
Round9(value) == value

\* The builtin hash of the pair (x, y): a fixed function of the two rounded
\* components into a bounded range (collisions are possible).
HashPair(x, y) == ((x * 1000003) + y) % 2147483647

\* The outcome of a method: the receiver's new state, the value returned
\* ("None" for None, "self" for the receiver) and the exception raised ("none"
\* when it returns).
Ok(v, ret) == [v |-> v, ret |-> ret, err |-> "none"]
Raise(v, e) == [v |-> v, ret |-> "None", err |-> e]

IsVector(o) == o.kind = "vector"
Scalar(n) == [kind |-> "scalar", n |-> n]

\* Faulty variant: the constructor caches the hash at once.
VectorEager(x, y) == [kind |-> "vector", x |-> x, y |-> y, hash |-> <<HashPair(x, y)>>]

Vector(x, y) == [kind |-> "vector", x |-> x, y |-> y, hash |-> None]

GetX(v) == Round9(v.x)

GetY(v) == Round9(v.y)

\* Faulty variant: the setter drops the cached hash instead of refusing.
SetXInvalidate(v, value) == Ok([v EXCEPT !.x = value, !.hash = None], "None")

SetX(v, value) ==
    IF v.hash # None THEN Raise(v, "ValueError")
    ELSE Ok([v EXCEPT !.x = value], "None")

SetY(v, value) ==
    IF v.hash # None THEN Raise(v, "ValueError")
    ELSE Ok([v EXCEPT !.y = value], "None")

\* Faulty variant: the hash is computed at every call and never cached.
VHashNoCache(v) == Ok(v, HashPair(GetX(v), GetY(v)))

VHash(v) ==
    IF v.hash = None
    THEN LET h == HashPair(GetX(v), GetY(v))
         IN  Ok([v EXCEPT !.hash = <<h>>], h)
    ELSE Ok(v, v.hash[1])

VLen(v) == Ok(v, 2)

GetItem(v, index) ==
    IF index = 0 THEN Ok(v, GetX(v))
    ELSE IF index = 1 THEN Ok(v, GetY(v))
    ELSE Raise(v, "IndexError")

\* Faulty variant: the copy keeps every slot, the cached hash included.
CopySlots(v) == v

\* copy(): a new instance built by the constructor from the stored components.
Copy(v) == Vector(v.x, v.y)

VEq(v, other) ==
    IF IsVector(other)
    THEN Ok(v, GetX(v) = GetX(other) /\ GetY(v) = GetY(other))
    ELSE Ok(v, "NotImplemented")

VNe(v, other) ==
    IF IsVector(other)
    THEN Ok(v, GetX(v) # GetX(other) /\ GetY(v) # GetY(other))
    ELSE Ok(v, "NotImplemented")

IAdd(v, other) ==
    IF v.hash # None THEN Raise(v, "ValueError")
    ELSE IF IsVector(other)
    THEN Ok([v EXCEPT !.x = v.x + other.x, !.y = v.y + other.y], "self")
    ELSE Ok([v EXCEPT !.x = v.x + other.n, !.y = v.y + other.n], "self")

Add(v, other) == IAdd(Copy(v), other)

\* __radd__ = __add__
RAdd(v, other) == Add(v, other)

Move(v, other) == [IAdd(v, other) EXCEPT !.ret = "None"]

\* Faulty variant: the y component is reduced by the operand's x.
ISubByX(v, other) ==
    IF v.hash # None THEN Raise(v, "ValueError")
    ELSE IF IsVector(other)
    THEN Ok([v EXCEPT !.x = v.x - other.x, !.y = v.y - other.x], "self")
    ELSE Ok([v EXCEPT !.x = v.x - other.n, !.y = v.y - other.n], "self")

ISub(v, other) ==
    IF v.hash # None THEN Raise(v, "ValueError")
    ELSE IF IsVector(other)
    THEN Ok([v EXCEPT !.x = v.x - other.x, !.y = v.y - other.y], "self")
    ELSE Ok([v EXCEPT !.x = v.x - other.n, !.y = v.y - other.n], "self")

Sub(v, other) == ISub(Copy(v), other)

\* Faulty variant: no test of _hash.
IMulUnguarded(v, other) ==
    IF IsVector(other)
    THEN Ok([v EXCEPT !.x = v.x * other.x, !.y = v.y * other.y], "self")
    ELSE Ok([v EXCEPT !.x = v.x * other.n, !.y = v.y * other.n], "self")

IMul(v, other) ==
    IF v.hash # None THEN Raise(v, "ValueError")
    ELSE IF IsVector(other)
    THEN Ok([v EXCEPT !.x = v.x * other.x, !.y = v.y * other.y], "self")
    ELSE Ok([v EXCEPT !.x = v.x * other.n, !.y = v.y * other.n], "self")

Mul(v, other) == IMul(Copy(v), other)

\* Faulty variant: __rmul__ = __add__.
RMulAsAdd(v, other) == Add(v, other)

\* __rmul__ = __mul__
RMul(v, other) == Mul(v, other)

Scale(v, other) == [IMul(v, other) EXCEPT !.ret = "None"]

\* a / b for b # 0.  The model's numbers are integers: the operations below are
\* applied only where the quotient is one (see Representable).
Quot(a, b) ==
    IF b > 0
    THEN (IF a >= 0 THEN a \div b ELSE -((-a) \div b))
    ELSE (IF a >= 0 THEN -(a \div (-b)) ELSE (-a) \div (-b))

Divides(b, a) == b # 0 /\ Quot(a, b) * b = a

\* self._x /= d1 is assigned before self._y /= d2 is evaluated: a zero d2
\* raises after _x has been replaced.
DivBy(v, d1, d2) ==
    IF d1 = 0 THEN Raise(v, "ZeroDivisionError")
    ELSE IF d2 = 0 THEN Raise([v EXCEPT !.x = Quot(v.x, d1)], "ZeroDivisionError")
    ELSE Ok([v EXCEPT !.x = Quot(v.x, d1), !.y = Quot(v.y, d2)], "self")

ITrueDiv(v, other) ==
    IF v.hash # None THEN Raise(v, "ValueError")
    ELSE IF IsVector(other) THEN DivBy(v, other.x, other.y)
    ELSE DivBy(v, other.n, other.n)

TrueDiv(v, other) == ITrueDiv(Copy(v), other)

Neg(v) ==
    LET copy == Copy(v)
    IN  Ok([copy EXCEPT !.x = -copy.x, !.y = -copy.y], "self")

\* abs(v): the root is kept symbolic, as the sum under it.
VAbs(v) == Ok(v, <<"sqrt", (v.x * v.x) + (v.y * v.y)>>)

\* abs(v) ** 2: the sum under the square root of __abs__.
AbsSquared(v) == (v.x * v.x) + (v.y * v.y)

\* abs(v) > r for a non-negative integer r.  The root of an integer below 2^53
\* is rounded correctly and r is the exact root of r * r, so the float
\* comparison has the value of the comparison of the squares.
AbsExceeds(v, r) == AbsSquared(v) > r * r

\* cos and sin of a whole number of quarter turns.  math.cos and math.sin are
\* off by less than 1e-15 there, which the rounded reads do not show.
Cosine(angle) ==
    LET q == (angle \div 90) % 4
    IN  IF q = 0 THEN 1 ELSE IF q = 2 THEN -1 ELSE 0

Sine(angle) ==
    LET q == (angle \div 90) % 4
    IN  IF q = 1 THEN 1 ELSE IF q = 3 THEN -1 ELSE 0

Rotate(v, angle) ==
    IF v.hash # None THEN Raise(v, "ValueError")
    ELSE LET x == v.x
             y == v.y
         IN  Ok([v EXCEPT !.x = (x * Cosine(angle)) - (y * Sine(angle)),
                          !.y = (y * Cosine(angle)) + (x * Sine(angle))], "None")

Repr(v) == Ok(v, <<"vector", GetX(v), GetY(v)>>)


(***************************************************************************)
(* flappy.py                                                               *)
(***************************************************************************)
\* No vector operation has been called yet.
NoCall == [op |-> "none", obj |-> 0, zero |-> FALSE, err |-> "none", ret |-> 0]

\* bird = vector(0, 0)
InitialBird == Vector(0, 0)

\* Faulty variant: bird.move(30), which moves along both axes.
TapScalar(b, x, y) == Move(b, Scalar(Jump))

\* Faulty variant: up = vector(0, y), the height of the click.
TapAtClick(b, x, y) == Move(b, Vector(0, y))

\* Faulty variant: only the upper bounds are tested.
InsideNoFloor(point) == GetX(point) < HalfExtent /\ GetY(point) < HalfExtent

\* Faulty variant: the boundary counts as inside.
InsideClosed(point) ==
    /\ -HalfExtent <= GetX(point) /\ GetX(point) <= HalfExtent
    /\ -HalfExtent <= GetY(point) /\ GetY(point) <= HalfExtent

\* up = vector(0, 30); bird.move(up).  The click coordinates are not read.
TapOut(b, x, y) ==
    LET up == Vector(0, Jump)
    IN  Move(b, up)

Inside(point) ==
    /\ -HalfExtent < GetX(point) /\ GetX(point) < HalfExtent
    /\ -HalfExtent < GetY(point) /\ GetY(point) < HalfExtent

\* Faulty variant: the obstacle at index 0 is not moved.
MoveBallsButFirst(bs, i) ==
    [balls |-> [k \in 1..Len(bs) |->
                   IF k = 1 THEN bs[k] ELSE [bs[k] EXCEPT !.x = @ - Drift]],
     err |-> "none"]

\* for ball in balls: ball.x -= 3, from index i on.  An exception leaves the
\* loop with the earlier balls moved.
RECURSIVE MoveBalls(_, _)
MoveBalls(bs, i) ==
    IF i > Len(bs) THEN [balls |-> bs, err |-> "none"]
    ELSE LET r == SetX(bs[i], GetX(bs[i]) - Drift)
         IN  IF r.err # "none" THEN [balls |-> bs, err |-> r.err]
             ELSE MoveBalls([bs EXCEPT ![i] = r.v], i + 1)

\* Faulty variant: the new obstacle is appended before the obstacles are
\* moved, so it has drifted once when the tick ends.
SpawnMoved(bs, r, y, id) ==
    IF r = 0
    THEN Append(bs, Vector(SpawnX - Drift, y) @@ [id |-> id, born |-> nTicks + 1])
    ELSE bs

\* if randrange(15) == 0: y = randrange(-199, 199); balls.append(vector(199, y)).
\* r and y are the two random draws; id is the new obstacle's identity and
\* born the number of the tick that appends it.
Spawn(bs, r, y, id) ==
    IF r = 0
    THEN Append(bs, Vector(SpawnX, y) @@ [id |-> id, born |-> nTicks + 1])
    ELSE bs

\* dodge = abs(ball - bird) > 15
Dodge(ball, b) ==
    LET d == Sub(ball, b)
    IN  [dodge |-> IF d.err = "none" THEN AbsExceeds(d.v, CollisionRadius) ELSE FALSE,
         err |-> d.err]

\* alive = inside(bird); for ball in balls: alive = alive and dodge, from
\* index i on with the value a so far.
RECURSIVE AliveLoop(_, _, _, _)
AliveLoop(bs, b, a, i) ==
    IF i > Len(bs) THEN [alive |-> a, err |-> "none"]
    ELSE LET d == Dodge(bs[i], b)
         IN  IF d.err # "none" THEN [alive |-> a, err |-> d.err]
             ELSE AliveLoop(bs, b, a /\ d.dodge, i + 1)

\* Faulty variant: balls.pop(), which removes the newest.
PopLast(bs) ==
    IF Len(bs) > Capacity
    THEN [balls |-> SubSeq(bs, 1, Len(bs) - 1), out |-> <<bs[Len(bs)]>>]
    ELSE [balls |-> bs, out |-> <<>>]

\* Faulty variant: no eviction.
NeverEvict(bs) == [balls |-> bs, out |-> <<>>]

\* if len(balls) > 30: balls.pop(0)
Evict(bs) ==
    IF Len(bs) > Capacity
    THEN [balls |-> Tail(bs), out |-> <<Head(bs)>>]
    ELSE [balls |-> bs, out |-> <<>>]

\* clear(); a black dot per ball; the bird's dot, green or red.
Render(bs, b, a) ==
    [i \in 1..Len(bs) |->
        [x |-> GetX(bs[i]), y |-> GetY(bs[i]), size |-> BallDot, color |-> "black"]]
    \o <<[x |-> GetX(b), y |-> GetY(b), size |-> BirdDot,
          color |-> IF a THEN "green" ELSE "red"]>>

\* Faulty variant: ontimer outside the test of alive.
AlwaysSchedule(tm, a) == Append(tm, [fn |-> "draw", delay |-> TickDelay])

\* if alive: ontimer(draw, 50)
Schedule(tm, a) ==
    IF a THEN Append(tm, [fn |-> "draw", delay |-> TickDelay]) ELSE tm

\* What one call of draw() leaves behind, given the timer queue tm at the call
\* and the two random draws.  A call that an exception leaves keeps what it
\* had changed up to there.
DrawOut(tm, r, y) ==
    LET same   == [bird |-> bird, balls |-> balls, canvas |-> canvas,
                   alive |-> alive, timers |-> tm, err |-> "none",
                   spawned |-> nSpawned, out |-> <<>>]
        fall   == SetY(bird, GetY(bird) - Gravity)
        moved  == MoveBalls(balls, 1)
        grown  == Spawn(moved.balls, r, y, nSpawned + 1)
        nsp    == IF r = 0 THEN nSpawned + 1 ELSE nSpawned
        live   == AliveLoop(grown, fall.v, Inside(fall.v), 1)
        kept   == Evict(grown)
    IN  IF fall.err # "none" THEN [same EXCEPT !.err = fall.err]
        ELSE IF moved.err # "none"
        THEN [same EXCEPT !.bird = fall.v, !.balls = moved.balls, !.err = moved.err]
        ELSE IF live.err # "none"
        THEN [same EXCEPT !.bird = fall.v, !.balls = grown, !.spawned = nsp,
                          !.err = live.err]
        ELSE [bird |-> fall.v, balls |-> kept.balls,
              canvas |-> Render(kept.balls, fall.v, live.alive),
              alive |-> <<live.alive>>, timers |-> Schedule(tm, live.alive),
              err |-> "none", spawned |-> nsp, out |-> kept.out]

\* The random outcomes explored: any in the first MaxFree ticks, then the
\* outcome of the tick before.
Outcome(r, y) == [spawn |-> (r = 0), y |-> IF r = 0 THEN y ELSE 0]

Explored(r, y) ==
    /\ r \in RandDraws /\ RandDraws \subseteq 0..(SpawnChance - 1)
    /\ y \in (IF r = 0 THEN SpawnYs ELSE {0})
    /\ SpawnYs \subseteq SpawnYLo..(SpawnYHi - 1)
    /\ (nTicks < MaxFree \/ Outcome(r, y) = lastRand)

ApplyDraw(d, r, y) ==
    /\ bird' = d.bird
    /\ balls' = d.balls
    /\ canvas' = d.canvas
    /\ alive' = d.alive
    /\ timers' = d.timers
    /\ err' = d.err
    /\ nSpawned' = d.spawned
    /\ evicted' = d.out
    /\ nTicks' = nTicks + 1
    /\ lastRand' = Outcome(r, y)

\* Faulty variant: start does not rebind the click.
StartKeepBinding(d) == "start"

\* start(x, y): draw(); onscreenclick(tap).  The rebinding is not reached when
\* draw() raises.
StartBinding(d) == IF d.err = "none" THEN "tap" ELSE "start"

Start(x, y) ==
    /\ onclick = "start"
    /\ \E r \in RandDraws : \E ry \in SpawnYs \cup {0} :
          /\ Explored(r, ry)
          /\ LET d == DrawOut(timers, r, ry)
             IN  /\ ApplyDraw(d, r, ry)
                 /\ onclick' = StartBinding(d)
    /\ lastEvent' = "start"
    /\ UNCHANGED <<nTaps, heap, hashed, last>>

Tap(x, y) ==
    /\ onclick = "tap"
    /\ nTaps < MaxTaps
    /\ LET t == TapOut(bird, x, y)
       IN  /\ bird' = t.v
           /\ err' = t.err
    /\ nTaps' = nTaps + 1
    /\ lastEvent' = "tap"
    /\ UNCHANGED <<balls, onclick, timers, canvas, alive, nTicks, nSpawned,
                   lastRand, evicted, heap, hashed, last>>

\* A click on the screen runs the handler onscreenclick bound last.
Click == \E x \in ClickXs : \E y \in ClickYs : Start(x, y) \/ Tap(x, y)

\* The timer at the head of the queue fires and runs draw().
TimerFires ==
    /\ timers # <<>>
    /\ \E r \in RandDraws : \E ry \in SpawnYs \cup {0} :
          /\ Explored(r, ry)
          /\ ApplyDraw(DrawOut(Tail(timers), r, ry), r, ry)
    /\ lastEvent' = "tick"
    /\ UNCHANGED <<onclick, nTaps, heap, hashed, last>>

Init ==
    /\ bird = InitialBird
    /\ balls = <<>>
    /\ onclick = "start"
    /\ timers = <<>>
    /\ canvas = <<>>
    /\ alive = <<>>
    /\ err = "none"
    /\ nTicks = 0
    /\ nTaps = 0
    /\ nSpawned = 0
    /\ lastEvent = "setup"
    /\ lastRand = [spawn |-> FALSE, y |-> 0]
    /\ evicted = <<>>
    /\ heap = <<>>
    /\ hashed = {}
    /\ last = NoCall

Next == Click \/ TimerFires

Spec == Init /\ [][Next]_vars

\* A step of TimerFires, told by its guard and by the tick it counts: the
\* only other action that runs a tick, Start, finds the timer queue empty, and
\* TimerFires is enabled exactly when the queue is not empty.
TimerStep == timers # <<>> /\ nTicks' = nTicks + 1

\* ontimer(draw, 50) under done(): the event loop runs every timer it holds,
\* so a pending tick eventually fires.  Clicks are up to the player.
FairSpec == Spec /\ WF_nTicks(TimerStep)

(***************************************************************************)
(* Properties of the game loop                                             *)
(***************************************************************************)
Ended == alive = <<FALSE>>

TickStep == nTicks' # nTicks

TapStep == nTaps' # nTaps

BirdDotOf(cv) == cv[Len(cv)]

\* C2: once the first click has started the game, the obstacle list holds at
\* most 30 entries in every state between two handlers, that is whenever a
\* tick has returned.
C2_CapacityBound == nTicks >= 1 => Len(balls) <= 30

C2_Witness == Len(balls) = 30 /\ evicted # <<>> /\ lastEvent = "tick"

\* C3: a tick that computes alive = true draws the bird green and adds exactly
\* one 50 ms timer to the queue it found; one that computes alive = false draws
\* it red and adds none; and once a tick has computed alive = false no tick
\* runs again.
C3_TickOutcome ==
    [][/\ Ended => ~TickStep
       /\ TickStep =>
            LET base == IF lastEvent' = "tick" THEN Tail(timers) ELSE timers
            IN  IF alive' = <<TRUE>>
                THEN /\ BirdDotOf(canvas').color = "green"
                     /\ timers' = Append(base, [fn |-> "draw", delay |-> 50])
                ELSE /\ alive' = <<FALSE>>
                     /\ BirdDotOf(canvas').color = "red"
                     /\ timers' = base]_vars

C3_Witness ==
    /\ Ended /\ lastEvent = "tap" /\ timers = <<>>
    /\ BirdDotOf(canvas).color = "red"

C5_Original ==
    [][(Ended /\ TapStep) => (bird' = bird /\ balls' = balls /\ err' = "none")]_vars

\* C5 as amended: once a tick has computed alive = false, a tap still adds 30
\* to the bird's stored y; it changes nothing else (x, the obstacle list, the
\* timer queue, the canvas, the alive value), runs no tick and raises nothing.
C5_TapAfterEnd ==
    [][(Ended /\ TapStep) =>
         /\ bird' = [bird EXCEPT !.y = bird.y + 30]
         /\ balls' = balls /\ err' = "none"
         /\ timers' = timers /\ canvas' = canvas /\ alive' = alive
         /\ ~TickStep]_vars

\* A tap after the end moved the bird away from where the last tick drew it.
C5_Witness ==
    /\ Ended /\ lastEvent = "tap"
    /\ bird.y = BirdDotOf(canvas).y + 30

\* C6: at most one tick is pending at any time; the timer queue gains an entry
\* only in a step that runs a tick; a click runs a tick only if no tick has run
\* before and none is pending.
C6_OneTickChain ==
    [][/\ Len(timers') <= 1
       /\ (timers' # timers /\ timers' # <<>>) => TickStep
       /\ (TickStep /\ lastEvent' # "tick") => (nTicks = 0 /\ timers = <<>>)
       /\ (TickStep /\ lastEvent' = "tick") => timers # <<>>]_vars

C6_Witness == Len(timers) = 1 /\ lastEvent = "tap" /\ nTaps >= 2 /\ nTicks >= 2

Min(a, b) == IF a < b THEN a ELSE b

\* C7: after n spawns the obstacle list holds exactly the min(n, 30) obstacles
\* spawned last, in spawn order, and a tick evicts at most one obstacle, the
\* one spawned just before the oldest kept.
C7_NewestKept ==
    /\ Len(balls) = Min(nSpawned, 30)
    /\ \A i \in 1..Len(balls) : balls[i].id = nSpawned - Len(balls) + i
    /\ Len(evicted) <= 1
    /\ evicted # <<>> => evicted[1].id = nSpawned - 30

C7_Witness ==
    /\ nSpawned = 31 /\ Len(balls) = 30
    /\ balls[1].id = 2 /\ evicted # <<>> /\ evicted[1].id = 1

\* C9: the bird and every obstacle are never hashed, and no handler raises.
C9_NeverFrozen ==
    /\ bird.hash = <<>>
    /\ \A i \in 1..Len(balls) : balls[i].hash = <<>>
    /\ err = "none"

C9_Witness ==
    /\ nTaps >= 1 /\ nTicks >= 2 /\ Len(balls) >= 2
    /\ lastEvent = "tap" /\ bird.hash = <<>> /\ err = "none"

\* C10: before the first click nothing has changed and the only step is that
\* click; it runs one tick, applies no upward displacement and binds clicks to
\* tap; every later tick is run by a timer, never by a click.
C10_Handshake ==
    [][/\ lastEvent = "setup" =>
            /\ nTicks = 0 /\ bird = Vector(0, 0) /\ balls = <<>> /\ timers = <<>>
            /\ lastEvent' = "start" /\ nTicks' = 1
            /\ bird'.x = 0 /\ bird'.y = -5
            /\ onclick' = "tap"
       /\ (TickStep /\ nTicks >= 1) =>
            (lastEvent' = "tick" /\ timers # <<>> /\ nTicks' = nTicks + 1)
       /\ (lastEvent' \in {"start", "tap"} /\ nTicks >= 1) => ~TickStep]_vars

C10_Witness ==
    /\ nTicks = 1 /\ lastEvent = "start" /\ onclick = "tap"
    /\ bird.y = -5 /\ Len(timers) = 1

\* C16: a tick lowers the bird's y by exactly 5 and keeps its x; every obstacle
\* of the list the tick found (the one it evicts included) has its x lowered
\* by exactly 3 and its y kept, in the same order; the tick appends at most
\* one obstacle, at the end of the list, which ends the tick at x = 199 with
\* an integer y in -199..198.
C16_TickAdvance ==
    [][TickStep =>
         LET after == evicted' \o balls'
             n     == Len(balls)
         IN  /\ bird'.y = bird.y - 5 /\ bird'.x = bird.x
             /\ Len(after) \in {n, n + 1}
             /\ nSpawned' = nSpawned + (Len(after) - n)
             /\ \A i \in 1..n :
                   /\ after[i].id = balls[i].id
                   /\ after[i].x = balls[i].x - 3
                   /\ after[i].y = balls[i].y
             /\ Len(after) = n + 1 =>
                   /\ after[n + 1].id = nSpawned + 1
                   /\ after[n + 1].x = 199
                   /\ after[n + 1].y \in (-199)..198]_vars

\* A tick moved two older obstacles and appended a third at x = 199, at the
\* top of the range of y.
C16_Witness ==
    /\ lastEvent = "tick" /\ Len(balls) = 3 /\ nSpawned = 3
    /\ balls[3].born = nTicks /\ balls[3].x = 199 /\ balls[3].y = 198
    /\ balls[2].x = 196 /\ balls[1].x = 190 /\ balls[1].y = -199

\* C17: a tap handled while the last tick computed alive = true adds exactly
\* 30 to the bird's y, whatever the click coordinates, and changes nothing
\* else: the bird's x, the obstacle list, the one pending timer, the click
\* binding, the canvas and the alive value are as they were, no tick runs and
\* nothing is raised, also when the bird's y is 200 or more after the tap.
C17_TapWhileRunning ==
    [][(TapStep /\ alive = <<TRUE>>) =>
         /\ bird' = [bird EXCEPT !.y = bird.y + 30]
         /\ balls' = balls /\ evicted' = evicted /\ nSpawned' = nSpawned
         /\ timers' = timers /\ Len(timers) = 1
         /\ onclick' = "tap" /\ onclick = "tap"
         /\ canvas' = canvas /\ alive' = <<TRUE>>
         /\ nTicks' = nTicks /\ err' = "none"]_vars

\* A tap has put the bird on or beyond the top boundary while obstacles are
\* in the list: the game is still running, with its tick pending.
C17_Witness ==
    /\ lastEvent = "tap" /\ alive = <<TRUE>> /\ Len(timers) = 1
    /\ bird.y >= 200 /\ bird.x = 0 /\ Len(balls) >= 1
    /\ BirdDotOf(canvas).y < 200

Comps == (-1)..MaxComp

\* The numbers passed as operands.
Scalars == {-1, 0, 1}

\* The angles rotate is called with.
Angles == {90, 180}

\* The indexes __getitem__ is called with.
Indexes == {0, 1, 2}

Objs == 1..Len(heap)

\* An operand is a number or a reference to an object of the heap.
Ref(j) == [kind |-> "ref", id |-> j]

\* The call takes no operand.
NoArg == [kind |-> "none"]

Operands == {Scalar(n) : n \in Scalars} \cup {Ref(j) : j \in Objs}

\* What a vector is compared with: a vector, or a number.
Comparands == {Scalar(0)} \cup {Ref(j) : j \in Objs}

Deref(o) == IF o.kind = "ref" THEN heap[o.id] ELSE o

InRange(v) == v.x \in Comps /\ v.y \in Comps

\* The quotients a division computes are integers.
Representable(v, o) ==
    LET d1 == IF IsVector(o) THEN o.x ELSE o.n
        d2 == IF IsVector(o) THEN o.y ELSE o.n
    IN  /\ d1 # 0 => Divides(d1, v.x)
        /\ (d1 # 0 /\ d2 # 0) => Divides(d2, v.y)

\* The record of a call: the method, the receiver, whether the operand holds a
\* zero component, the exception raised, and the identity of the new instance
\* the call returned (0 when it returned none).
HasZero(arg) ==
    LET o == Deref(arg)
    IN  IF o.kind = "none" THEN FALSE
        ELSE IF IsVector(o) THEN o.x = 0 \/ o.y = 0
        ELSE o.n = 0

Called(op, i, arg, r) ==
    [op |-> op, obj |-> i, zero |-> HasZero(arg), err |-> r.err, ret |-> 0]

\* A method called on object i that may change it and allocates nothing.
OnReceiver(op, i, arg, r) ==
    /\ InRange(r.v)
    /\ heap' = [heap EXCEPT ![i] = r.v]
    /\ last' = Called(op, i, arg, r)
    /\ UNCHANGED gameVars

\* A method called on object i that returns a new instance.
Returning(op, i, arg, r) ==
    /\ Len(heap) + 1 \in ObjIds
    /\ InRange(r.v)
    /\ IF r.err = "none"
       THEN /\ heap' = Append(heap, r.v)
            /\ last' = [Called(op, i, arg, r) EXCEPT !.ret = Len(heap) + 1]
       ELSE /\ heap' = heap
            /\ last' = Called(op, i, arg, r)
    /\ UNCHANGED <<hashed>>
    /\ UNCHANGED gameVars

OpNew ==
    /\ Len(heap) + 1 \in ObjIds
    /\ \E x \in Comps : \E y \in Comps :
          /\ heap' = Append(heap, Vector(x, y))
          /\ last' = [op |-> "new", obj |-> Len(heap) + 1, zero |-> FALSE,
                      err |-> "none", ret |-> Len(heap) + 1]
    /\ UNCHANGED <<hashed>>
    /\ UNCHANGED gameVars

OpHash ==
    \E i \in Objs :
        /\ OnReceiver("hash", i, NoArg, VHash(heap[i]))
        /\ hashed' = hashed \cup {i}

OpGetX == \E i \in Objs :
    OnReceiver("getx", i, NoArg, Ok(heap[i], GetX(heap[i]))) /\ UNCHANGED hashed

OpGetY == \E i \in Objs :
    OnReceiver("gety", i, NoArg, Ok(heap[i], GetY(heap[i]))) /\ UNCHANGED hashed

OpSetX == \E i \in Objs : \E value \in Comps :
    OnReceiver("setx", i, Scalar(value), SetX(heap[i], value)) /\ UNCHANGED hashed

OpSetY == \E i \in Objs : \E value \in Comps :
    OnReceiver("sety", i, Scalar(value), SetY(heap[i], value)) /\ UNCHANGED hashed

OpLen == \E i \in Objs :
    OnReceiver("len", i, NoArg, VLen(heap[i])) /\ UNCHANGED hashed

OpGetItem == \E i \in Objs : \E index \in Indexes :
    OnReceiver("getitem", i, Scalar(index), GetItem(heap[i], index)) /\ UNCHANGED hashed

OpEq == \E i \in Objs : \E o \in Comparands :
    OnReceiver("eq", i, o, VEq(heap[i], Deref(o))) /\ UNCHANGED hashed

OpNe == \E i \in Objs : \E o \in Comparands :
    OnReceiver("ne", i, o, VNe(heap[i], Deref(o))) /\ UNCHANGED hashed

OpAbs == \E i \in Objs :
    OnReceiver("abs", i, NoArg, VAbs(heap[i])) /\ UNCHANGED hashed

OpRepr == \E i \in Objs :
    OnReceiver("repr", i, NoArg, Repr(heap[i])) /\ UNCHANGED hashed

OpIAdd == \E i \in Objs : \E o \in Operands :
    OnReceiver("iadd", i, o, IAdd(heap[i], Deref(o))) /\ UNCHANGED hashed

OpMove == \E i \in Objs : \E o \in Operands :
    OnReceiver("move", i, o, Move(heap[i], Deref(o))) /\ UNCHANGED hashed

OpISub == \E i \in Objs : \E o \in Operands :
    OnReceiver("isub", i, o, ISub(heap[i], Deref(o))) /\ UNCHANGED hashed

OpIMul == \E i \in Objs : \E o \in Operands :
    OnReceiver("imul", i, o, IMul(heap[i], Deref(o))) /\ UNCHANGED hashed

OpScale == \E i \in Objs : \E o \in Operands :
    OnReceiver("scale", i, o, Scale(heap[i], Deref(o))) /\ UNCHANGED hashed

OpITrueDiv == \E i \in Objs : \E o \in Operands :
    /\ Representable(heap[i], Deref(o))
    /\ OnReceiver("itruediv", i, o, ITrueDiv(heap[i], Deref(o)))
    /\ UNCHANGED hashed

OpRotate == \E i \in Objs : \E angle \in Angles :
    OnReceiver("rotate", i, Scalar(angle), Rotate(heap[i], angle)) /\ UNCHANGED hashed

OpCopy == \E i \in Objs :
    Returning("copy", i, NoArg, Ok(Copy(heap[i]), "self"))

OpNeg == \E i \in Objs :
    Returning("neg", i, NoArg, Neg(heap[i]))

OpAdd == \E i \in Objs : \E o \in Operands :
    Returning("add", i, o, Add(heap[i], Deref(o)))

\* __radd__ = __add__: n + v calls v.__radd__(n).
OpRAdd == \E i \in Objs : \E n \in Scalars :
    Returning("radd", i, Scalar(n), RAdd(heap[i], Scalar(n)))

OpSub == \E i \in Objs : \E o \in Operands :
    Returning("sub", i, o, Sub(heap[i], Deref(o)))

OpMul == \E i \in Objs : \E o \in Operands :
    Returning("mul", i, o, Mul(heap[i], Deref(o)))

\* __rmul__ = __mul__: n * v calls v.__rmul__(n).
OpRMul == \E i \in Objs : \E n \in Scalars :
    Returning("rmul", i, Scalar(n), RMul(heap[i], Scalar(n)))

OpTrueDiv == \E i \in Objs : \E o \in Operands :
    /\ Representable(heap[i], Deref(o))
    /\ Returning("truediv", i, o, TrueDiv(heap[i], Deref(o)))

VecNext ==
    \/ OpNew \/ OpHash \/ OpGetX \/ OpGetY \/ OpSetX \/ OpSetY \/ OpLen
    \/ OpGetItem \/ OpEq \/ OpNe \/ OpAbs \/ OpRepr
    \/ OpIAdd \/ OpMove \/ OpISub \/ OpIMul \/ OpScale \/ OpITrueDiv \/ OpRotate
    \/ OpCopy \/ OpNeg \/ OpAdd \/ OpRAdd \/ OpSub \/ OpMul \/ OpRMul \/ OpTrueDiv

VecSpec == Init /\ [][VecNext]_vars

(***************************************************************************)
(* Properties of the vector class                                          *)
(***************************************************************************)
Mutators ==
    {"setx", "sety", "iadd", "isub", "imul", "itruediv", "move", "scale", "rotate"}

Frozen(v) == v.hash # <<>>

\* C1 as claimed: a mutator called on a vector that hash() was never called on
\* succeeds; called on one that hash() was called on, it raises ValueError and
\* leaves the vector as it was.
C1_Original ==
    [][last'.op \in Mutators =>
         IF last'.obj \in hashed
         THEN last'.err = "ValueError" /\ heap'[last'.obj] = heap[last'.obj]
         ELSE last'.err = "none"]_vars

\* C1 as amended: a mutator called on a vector that hash() was never called on
\* succeeds, except /= with an operand that is zero or a vector with a zero
\* component, which raises ZeroDivisionError; called on a vector that hash()
\* was called on, every mutator raises ValueError, whatever the operand, and
\* leaves the stored components and the cached hash as they were.
C1_FrozenMutation ==
    [][last'.op \in Mutators =>
         IF last'.obj \in hashed
         THEN last'.err = "ValueError" /\ heap'[last'.obj] = heap[last'.obj]
         ELSE IF last'.op = "itruediv" /\ last'.zero
         THEN last'.err = "ZeroDivisionError"
         ELSE last'.err = "none"]_vars

\* /= 0 on a hashed vector was refused as a frozen mutation.
C1_Witness ==
    /\ last.op = "itruediv" /\ last.zero
    /\ last.obj \in hashed /\ last.err = "ValueError"

\* C8: an object goes from unfrozen to frozen only in a call of hash() on it,
\* and a frozen object stays frozen, with the same cached hash, whatever is
\* called on it or with it as operand.
C8_OnlyHashFreezes ==
    [][\A i \in 1..Len(heap) :
         /\ i <= Len(heap')
         /\ Frozen(heap[i]) => heap'[i].hash = heap[i].hash
         /\ (~Frozen(heap[i]) /\ Frozen(heap'[i])) =>
                (last'.op = "hash" /\ last'.obj = i)]_vars

\* While object 1 was frozen, a method that returned normally was called on
\* the unfrozen object 2, which is still unfrozen.
C8_Witness ==
    /\ Len(heap) = 2 /\ Frozen(heap[1]) /\ ~Frozen(heap[2])
    /\ last.op \in {"eq", "ne", "isub", "setx"} /\ last.obj = 2 /\ last.err = "none"

\* The methods that return a new instance and leave the receiver alone.
NonMutating == {"copy", "neg", "add", "radd", "sub", "mul", "rmul", "truediv"}

\* The call recorded in last' returned a new, unfrozen instance and left the
\* receiver, its components and its cached hash, as it was.
ReturnedFresh ==
    /\ last'.err = "none"
    /\ last'.ret = Len(heap) + 1 /\ last'.ret # last'.obj
    /\ Len(heap') = Len(heap) + 1
    /\ ~Frozen(heap'[last'.ret])
    /\ \A j \in 1..Len(heap) : heap'[j] = heap[j]

\* C11 as claimed: copy(), negation and the non-mutating +, -, *, / succeed on
\* any receiver, frozen or not, return a new unfrozen instance distinct from
\* the receiver and leave the receiver unchanged; a mutator called later on an
\* object changes no other object.
C11_Original ==
    [][/\ last'.op \in NonMutating => ReturnedFresh
       /\ last'.op \in Mutators =>
            \A j \in 1..Len(heap) : j # last'.obj => heap'[j] = heap[j]]_vars

\* C11 as amended: the same, except that / with an operand that is zero or a
\* vector with a zero component raises ZeroDivisionError, returns no instance
\* and leaves every object as it was, on a frozen receiver as on an unfrozen
\* one.
C11_FreshInstance ==
    [][/\ last'.op \in NonMutating =>
            IF last'.op = "truediv" /\ last'.zero
            THEN /\ last'.err = "ZeroDivisionError" /\ last'.ret = 0
                 /\ heap' = heap
            ELSE ReturnedFresh
       /\ last'.op \in Mutators =>
            \A j \in 1..Len(heap) : j # last'.obj => heap'[j] = heap[j]]_vars

\* A non-mutating operator called on the frozen object 1 returned the unfrozen
\* object 2, whose components differ from the receiver's.
C11_Witness ==
    /\ last.op \in {"neg", "add", "sub", "mul", "truediv"} /\ last.obj = 1
    /\ last.err = "none" /\ last.ret = 2 /\ Len(heap) = 2
    /\ Frozen(heap[1]) /\ ~Frozen(heap[2])
    /\ <<heap[2].x, heap[2].y>> # <<heap[1].x, heap[1].y>>

\* The value hash(v) returns when called in this state.
HashOf(v) == VHash(v).ret

\* C12: once hash() has been called on a vector every call of hash() on it
\* returns the same value, whatever was called in between; the first call
\* caches the hash of the pair of rounded components; and two vectors that
\* compare equal have the same hash.
C12_HashStable ==
    /\ [](\A i \in 1..Len(heap) : \A j \in 1..Len(heap) :
            VEq(heap[i], heap[j]).ret = TRUE => HashOf(heap[i]) = HashOf(heap[j]))
    /\ [][/\ \A i \in 1..Len(heap) :
                 i \in hashed => HashOf(heap'[i]) = HashOf(heap[i])
          /\ (last'.op = "hash" /\ ~Frozen(heap[last'.obj])) =>
                 LET v == heap[last'.obj]
                 IN  heap'[last'.obj].hash = <<HashPair(Round9(v.x), Round9(v.y))>>]_vars

\* hash() was called on both of two distinct objects with equal, non-zero
\* first components and equal second components: both hold the same hash.
C12_Witness ==
    /\ Len(heap) = 2 /\ hashed = {1, 2} /\ last.op = "hash" /\ last.obj = 2
    /\ VEq(heap[1], heap[2]).ret = TRUE
    /\ heap[1].hash = heap[2].hash /\ Frozen(heap[1])
    /\ heap[1].x # 0

\* C13: for all vectors v and w, v != w is true exactly when v == w is false,
\* also when v and w differ in exactly one component.
C13_NeNegatesEq ==
    \A i \in 1..Len(heap) : \A j \in 1..Len(heap) :
        VNe(heap[i], heap[j]).ret = ~VEq(heap[i], heap[j]).ret

\* The operand o as the heap h holds it when the call is made.
DerefIn(h, o) == IF o.kind = "ref" THEN h[o.id] ELSE o

\* The heap after the two statements v += a; v -= a on object i of heap h.
AddThenSub(h, i, a) ==
    LET h1 == [h EXCEPT ![i] = IAdd(h[i], DerefIn(h, a)).v]
    IN  [h1 EXCEPT ![i] = ISub(h1[i], DerefIn(h1, a)).v]

\* (v + a) - a succeeds and equals v.
AddSubBack(v, o) ==
    LET s == Add(v, o)
        d == Sub(s.v, o)
    IN  /\ s.err = "none" /\ d.err = "none"
        /\ VEq(d.v, v).ret = TRUE
        /\ d.v.x = v.x /\ d.v.y = v.y

\* C14 as claimed: for every vector v and every operand a, a number or a
\* vector, (v + a) - a equals v, and on an unfrozen v the pair v += a; v -= a
\* leaves v with the components it had.
C14_Original ==
    \A i \in 1..Len(heap) : \A a \in Operands :
        /\ AddSubBack(heap[i], Deref(a))
        /\ ~Frozen(heap[i]) => AddThenSub(heap, i, a)[i] = heap[i]

\* C14 as amended: the same, the in-place pair for every operand a other than
\* v itself; v += v; v -= v leaves v the zero vector.
C14_AddSubRoundTrip ==
    \A i \in 1..Len(heap) : \A a \in Operands :
        /\ AddSubBack(heap[i], Deref(a))
        /\ ~Frozen(heap[i]) =>
              AddThenSub(heap, i, a)[i] =
                 IF a = Ref(i) THEN [heap[i] EXCEPT !.x = 0, !.y = 0] ELSE heap[i]

\* -= has just returned on the unfrozen object 1, and adding object 2, whose
\* components are not zero, changes object 1 before the subtraction restores
\* it.
C14_Witness ==
    /\ Len(heap) = 2 /\ last.op = "isub" /\ last.obj = 1 /\ last.err = "none"
    /\ ~Frozen(heap[1]) /\ heap[2].x # 0 /\ heap[2].y # 0
    /\ heap[1].x # 0
    /\ IAdd(heap[1], heap[2]).v # heap[1]
    /\ AddThenSub(heap, 1, Ref(2))[1] = heap[1]

\* r is the outcome of an operator that returned the vector (x, y).
Returns(r, x, y) == r.err = "none" /\ r.v.x = x /\ r.v.y = y

\* C15: for every vector v and number s, s + v and v + s both return the
\* vector (v.x + s, v.y + s), s * v and v * s both return (v.x * s, v.y * s),
\* the two forms compare equal, and a call of either form leaves v as it was.
C15_ScalarCommutes ==
    /\ [](\A i \in 1..Len(heap) : \A n \in Scalars :
            LET v == heap[i]
            IN  /\ Returns(Add(v, Scalar(n)), v.x + n, v.y + n)
                /\ Returns(RAdd(v, Scalar(n)), v.x + n, v.y + n)
                /\ Returns(Mul(v, Scalar(n)), v.x * n, v.y * n)
                /\ Returns(RMul(v, Scalar(n)), v.x * n, v.y * n)
                /\ VEq(RAdd(v, Scalar(n)).v, Add(v, Scalar(n)).v).ret = TRUE
                /\ VEq(RMul(v, Scalar(n)).v, Mul(v, Scalar(n)).v).ret = TRUE)
    /\ [][last'.op \in {"add", "radd", "mul", "rmul"} =>
            heap'[last'.obj] = heap[last'.obj]]_vars

\* s * v was called with s = -1 on the frozen object 1, whose components are
\* not zero: it returned object 2, the negated vector, and object 1 is as it
\* was.
C15_Witness ==
    /\ Len(heap) = 2 /\ last.op = "rmul" /\ last.obj = 1 /\ last.ret = 2
    /\ last.err = "none" /\ Frozen(heap[1])
    /\ heap[1].x # 0 /\ heap[1].y # 0
    /\ heap[2].x = -heap[1].x /\ heap[2].y = -heap[1].y

\* C20: when /= on an unfrozen vector raises ZeroDivisionError (the operand is
\* zero, or a vector with a zero component), both stored components of the
\* receiver are as they were before the call.
C20_DivAtomic ==
    [][(last'.op = "itruediv" /\ last'.err = "ZeroDivisionError") =>
         /\ heap'[last'.obj].x = heap[last'.obj].x
         /\ heap'[last'.obj].y = heap[last'.obj].y]_vars

=============================================================================
